---- MODULE Spec2Model ----
(***************************************************************************)
(* Model of josemukorivo/config: Parse binds environment variables into    *)
(* the fields of a (possibly nested) struct.                               *)
(*                                                                         *)
(* Go strings are sequences of one-character strings, so that upper-casing *)
(* key construction and literal parsing are computed, not assumed.         *)
(***************************************************************************)
EXTENDS Integers, Sequences, FiniteSets, TLC

(***************************************************************************)
(* Strings                                                                 *)
(***************************************************************************)
LowerLetters == <<"a","b","c","d","e","f","g","h","i","j","k","l","m",
                  "n","o","p","q","r","s","t","u","v","w","x","y","z">>

UpperLetters == <<"A","B","C","D","E","F","G","H","I","J","K","L","M",
                  "N","O","P","Q","R","S","T","U","V","W","X","Y","Z">>

Digits == <<"0","1","2","3","4","5","6","7","8","9">>

\* strings.ToUpper, one character
ToUpperChar(c) ==
    IF \E i \in 1..Len(LowerLetters) : LowerLetters[i] = c
    THEN UpperLetters[CHOOSE i \in 1..Len(LowerLetters) : LowerLetters[i] = c]
    ELSE c

\* strings.ToUpper
ToUpper(s) == [i \in 1..Len(s) |-> ToUpperChar(s[i])]

\* fmt.Sprintf("%s_%s", a, b)
Sprintf_s_s(a, b) == a \o <<"_">> \o b

IsDigit(c) == \E i \in 1..Len(Digits) : Digits[i] = c

DigitVal(c) == (CHOOSE i \in 1..Len(Digits) : Digits[i] = c) - 1

HexLetters == <<"a","b","c","d","e","f">>

IsHexDigit(c) ==
    \/ IsDigit(c)
    \/ \E i \in 1..Len(HexLetters) : HexLetters[i] = c \/ ToUpperChar(HexLetters[i]) = c

HexVal(c) ==
    IF IsDigit(c) THEN DigitVal(c)
    ELSE 9 + (CHOOSE i \in 1..Len(HexLetters) :
                  HexLetters[i] = c \/ ToUpperChar(HexLetters[i]) = c)

\* s[from:] in Go (from is a 0-based offset)
Drop(s, from) == SubSeq(s, from + 1, Len(s))

\* the digits of s read in the given base, most significant first
RECURSIVE NumberIn(_, _)
NumberIn(s, base) ==
    IF s = <<>> THEN 0
    ELSE NumberIn(SubSeq(s, 1, Len(s) - 1), base) * base + HexVal(s[Len(s)])

AllDigitsOf(s, base) ==
    \A i \in 1..Len(s) : IsHexDigit(s[i]) /\ HexVal(s[i]) < base

(***************************************************************************)
(* Typed values of fields.  Every value is a record of the same shape so   *)
(* that values of different kinds are comparable.                          *)
(***************************************************************************)
NoMap == {}

Value(kind, n, e, s, b, m) == [kind |-> kind, n |-> n, e |-> e, s |-> s, b |-> b, m |-> m]

StringValue(s) == Value("string", 0, 0, s, FALSE, NoMap)
IntValue(n) == Value("int", n, 0, <<>>, FALSE, NoMap)
BoolValue(b) == Value("bool", 0, 0, <<>>, b, NoMap)
\* a float is mant * 10^(-frac)
FloatValue(mant, frac) == Value("float", mant, frac, <<>>, FALSE, NoMap)
MapValue(m) == Value("map", 0, 0, <<>>, FALSE, m)
NilMapValue == Value("nilmap", 0, 0, <<>>, FALSE, NoMap)
UintValue(n) == Value("uint", n, 0, <<>>, FALSE, NoMap)
SliceValue(s) == Value("slice", 0, 0, s, FALSE, NoMap)
\* the state of a custom (Setter) type: the last string its Set stored
CustomValue(s) == Value("custom", 0, 0, s, FALSE, NoMap)

(***************************************************************************)
(* The conversions of the standard library that parseField calls.  Each    *)
(* returns [err, val]: err is "" on success and names the failure          *)
(* otherwise.                                                              *)
(***************************************************************************)
Ok(v) == [err |-> "", val |-> v]

Fail(cause) == [err |-> cause, val |-> IntValue(0)]

\* strconv.underscoreOK: underscores only between digits or after a base prefix
RECURSIVE UnderscoreScan(_, _, _)
UnderscoreScan(s, last, hex) ==
    IF s = <<>> THEN last # "_"
    ELSE IF IsDigit(s[1]) \/ (hex /\ IsHexDigit(s[1]))
         THEN UnderscoreScan(Drop(s, 1), "0", hex)
    ELSE IF s[1] = "_"
         THEN last = "0" /\ UnderscoreScan(Drop(s, 1), "_", hex)
    ELSE last # "_" /\ UnderscoreScan(Drop(s, 1), "!", hex)

UnderscoreOK(s) ==
    LET t == IF s # <<>> /\ s[1] \in {"+", "-"} THEN Drop(s, 1) ELSE s
        pre == Len(t) >= 2 /\ t[1] = "0" /\ ToUpperChar(t[2]) \in {"B", "O", "X"}
    IN UnderscoreScan(IF pre THEN Drop(t, 2) ELSE t,
                      IF pre THEN "0" ELSE "^",
                      pre /\ ToUpperChar(t[2]) = "X")

\* strconv.ParseUint(s, 0, 64): the base is detected from the prefix
ParseUint(s) ==
    IF s = <<>> THEN [err |-> "syntax", n |-> 0]
    ELSE
      LET pre == s[1] = "0" /\ Len(s) >= 3
          base == IF s[1] # "0" THEN 10
                  ELSE IF pre /\ ToUpperChar(s[2]) = "B" THEN 2
                  ELSE IF pre /\ ToUpperChar(s[2]) = "O" THEN 8
                  ELSE IF pre /\ ToUpperChar(s[2]) = "X" THEN 16
                  ELSE 8
          rest == IF s[1] # "0" THEN s
                  ELSE IF pre /\ ToUpperChar(s[2]) \in {"B", "O", "X"} THEN Drop(s, 2)
                  ELSE Drop(s, 1)
          digits == SelectSeq(rest, LAMBDA c : c # "_")
      IN IF ~AllDigitsOf(digits, base) THEN [err |-> "syntax", n |-> 0]
         ELSE IF Len(digits) # Len(rest) /\ ~UnderscoreOK(s) THEN [err |-> "syntax", n |-> 0]
         ELSE [err |-> "", n |-> NumberIn(digits, base)]

\* 1 << (bitSize - 1)
RECURSIVE Pow2(_)
Pow2(k) == IF k = 0 THEN 1 ELSE 2 * Pow2(k - 1)

\* The widest type whose range the literals of the model can leave; the
\* range check of wider types (int, int64) cannot fail on them.
MaxCheckedBits == 16

\* strconv.ParseInt(s, 0, bitSize)
ParseInt(s, bitSize) ==
    IF s = <<>> THEN Fail("syntax")
    ELSE
      LET neg == s[1] = "-"
          body == IF s[1] \in {"+", "-"} THEN Drop(s, 1) ELSE s
          u == ParseUint(body)
      IN IF u.err # "" THEN Fail(u.err)
         ELSE IF bitSize <= MaxCheckedBits /\ ~neg /\ u.n >= Pow2(bitSize - 1) THEN Fail("range")
         ELSE IF bitSize <= MaxCheckedBits /\ neg /\ u.n > Pow2(bitSize - 1) THEN Fail("range")
         ELSE Ok(IntValue(IF neg THEN 0 - u.n ELSE u.n))

\* strconv.ParseBool
ParseBool(s) ==
    IF s \in {<<"1">>, <<"t">>, <<"T">>, <<"T","R","U","E">>, <<"t","r","u","e">>,
              <<"T","r","u","e">>}
    THEN Ok(BoolValue(TRUE))
    ELSE IF s \in {<<"0">>, <<"f">>, <<"F">>, <<"F","A","L","S","E">>,
                   <<"f","a","l","s","e">>, <<"F","a","l","s","e">>}
    THEN Ok(BoolValue(FALSE))
    ELSE Fail("syntax")

\* the index of the first c in s, 0 when there is none
IndexOf(s, c) ==
    IF \E i \in 1..Len(s) : s[i] = c
    THEN CHOOSE i \in 1..Len(s) : s[i] = c /\ \A j \in 1..(i - 1) : s[j] # c
    ELSE 0

\* trailing zeros of a fraction carry no value
RECURSIVE TrimZeros(_)
TrimZeros(s) ==
    IF s # <<>> /\ s[Len(s)] = "0" THEN TrimZeros(SubSeq(s, 1, Len(s) - 1)) ELSE s

\* strconv.ParseFloat on decimal literals [sign] digits [. digits]; exponents,
\* hexadecimal floats, inf and nan do not occur among the literals of the model
ParseFloat(s) ==
    LET neg == s # <<>> /\ s[1] = "-"
        body == IF s # <<>> /\ s[1] \in {"+", "-"} THEN Drop(s, 1) ELSE s
        dot == IndexOf(body, ".")
        int == IF dot = 0 THEN body ELSE SubSeq(body, 1, dot - 1)
        frac == IF dot = 0 THEN <<>> ELSE TrimZeros(Drop(body, dot))
        mant == NumberIn(int \o frac, 10)
    IN IF int \o frac = <<>> /\ (dot = 0 \/ Len(body) = 1) THEN Fail("syntax")
       ELSE IF ~AllDigitsOf(int, 10) \/ ~AllDigitsOf(frac, 10) THEN Fail("syntax")
       ELSE Ok(FloatValue(IF neg THEN 0 - mant ELSE mant, Len(frac)))

\* the length of the longest prefix of s made of digits
RECURSIVE LeadingDigits(_)
LeadingDigits(s) ==
    IF s # <<>> /\ IsDigit(s[1]) THEN 1 + LeadingDigits(Drop(s, 1)) ELSE 0

\* the length of the longest prefix of s with no digit and no point: a unit
RECURSIVE LeadingUnit(_)
LeadingUnit(s) ==
    IF s # <<>> /\ ~IsDigit(s[1]) /\ s[1] # "." THEN 1 + LeadingUnit(Drop(s, 1)) ELSE 0

\* time.unitMap, in nanoseconds; "m" and "h" exceed 32-bit integers and are
\* not used by the literals of the model
UnitNanos(u) ==
    CASE u = <<"n","s">> -> 1
      [] u = <<"u","s">> -> 1000
      [] u = <<"m","s">> -> 1000000
      [] u = <<"s">> -> 1000000000
      [] OTHER -> 0

\* the groups "<digits><unit>" of a duration literal, summed
RECURSIVE DurationGroups(_)
DurationGroups(s) ==
    IF s = <<>> THEN [err |-> "", n |-> 0]
    ELSE
      LET nd == LeadingDigits(s)
          afterNum == Drop(s, nd)
          nu == LeadingUnit(afterNum)
          unit == SubSeq(afterNum, 1, nu)
          rest == DurationGroups(Drop(afterNum, nu))
      IN IF nd = 0 THEN [err |-> "invalid duration", n |-> 0]
         ELSE IF nu = 0 THEN [err |-> "missing unit", n |-> 0]
         ELSE IF UnitNanos(unit) = 0 THEN [err |-> "unknown unit", n |-> 0]
         ELSE IF rest.err # "" THEN rest
         ELSE [err |-> "", n |-> NumberIn(SubSeq(s, 1, nd), 10) * UnitNanos(unit) + rest.n]

\* time.ParseDuration on literals without fractions
ParseDuration(s) ==
    LET neg == s # <<>> /\ s[1] = "-"
        body == IF s # <<>> /\ s[1] \in {"+", "-"} THEN Drop(s, 1) ELSE s
        g == DurationGroups(body)
    IN IF body = <<"0">> THEN Ok(IntValue(0))
       ELSE IF body = <<>> THEN Fail("invalid duration")
       ELSE IF g.err # "" THEN Fail(g.err)
       ELSE Ok(IntValue(IF neg THEN 0 - g.n ELSE g.n))

(***************************************************************************)
(* The map literal: strings.TrimSpace, strconv.Unquote and json.Unmarshal  *)
(* into a map[string]string.  A map is the set of its <<key, value>> pairs.*)
(***************************************************************************)
Quote == "\""

Backslash == "\\"

WhiteSpace == {" ", "\t", "\n"}

RECURSIVE TrimLeft(_)
TrimLeft(s) == IF s # <<>> /\ s[1] \in WhiteSpace THEN TrimLeft(Drop(s, 1)) ELSE s

RECURSIVE TrimRight(_)
TrimRight(s) ==
    IF s # <<>> /\ s[Len(s)] \in WhiteSpace THEN TrimRight(SubSeq(s, 1, Len(s) - 1)) ELSE s

\* strings.TrimSpace
TrimSpace(s) == TrimRight(TrimLeft(s))

\* the characters between an opening quote and the quote that closes it, with
\* the escapes \" \\ \n \t replaced; s is read from offset p, acc is the text
\* read so far.  ok is FALSE on an unknown escape or a missing closing quote.
RECURSIVE ScanQuoted(_, _, _)
ScanQuoted(s, p, acc) ==
    IF p > Len(s) THEN [ok |-> FALSE, str |-> acc, next |-> p]
    ELSE IF s[p] = Quote THEN [ok |-> TRUE, str |-> acc, next |-> p + 1]
    ELSE IF s[p] = "\n" THEN [ok |-> FALSE, str |-> acc, next |-> p]
    ELSE IF s[p] # Backslash THEN ScanQuoted(s, p + 1, Append(acc, s[p]))
    ELSE IF p + 1 > Len(s) THEN [ok |-> FALSE, str |-> acc, next |-> p]
    ELSE IF s[p + 1] \in {Quote, Backslash} THEN ScanQuoted(s, p + 2, Append(acc, s[p + 1]))
    ELSE IF s[p + 1] = "n" THEN ScanQuoted(s, p + 2, Append(acc, "\n"))
    ELSE IF s[p + 1] = "t" THEN ScanQuoted(s, p + 2, Append(acc, "\t"))
    ELSE [ok |-> FALSE, str |-> acc, next |-> p]

\* strconv.Unquote of a literal that starts and ends with a double quote: the
\* closing quote must be the last character
Unquote(s) ==
    LET r == ScanQuoted(s, 2, <<>>)
    IN IF r.ok /\ r.next = Len(s) + 1 THEN [ok |-> TRUE, str |-> r.str]
       ELSE [ok |-> FALSE, str |-> <<>>]

RECURSIVE SkipSpace(_, _)
SkipSpace(s, p) == IF p <= Len(s) /\ s[p] \in WhiteSpace THEN SkipSpace(s, p + 1) ELSE p

At(s, p, c) == p <= Len(s) /\ s[p] = c

IsNull(s, p) == p + 3 <= Len(s) /\ SubSeq(s, p, p + 3) = <<"n","u","l","l">>

\* m with key k bound to v: a later member replaces an earlier one
MapPut(m, k, v) == {kv \in m : kv[1] # k} \cup {<<k, v>>}

\* the members of a JSON object from offset p, after "{" or ","
RECURSIVE JsonMembers(_, _, _)
JsonMembers(s, p, m) ==
    LET k == ScanQuoted(s, p + 1, <<>>)
        colon == SkipSpace(s, k.next)
        vpos == SkipSpace(s, colon + 1)
        v == ScanQuoted(s, vpos + 1, <<>>)
        nd == LeadingDigits(Drop(s, vpos - 1))
        null == IsNull(s, vpos)
        isStr == At(s, vpos, Quote) /\ v.ok
        vend == SkipSpace(s, IF isStr THEN v.next ELSE IF null THEN vpos + 4 ELSE vpos + nd)
        m2 == MapPut(m, k.str, IF isStr THEN v.str ELSE <<>>)
        more == JsonMembers(s, SkipSpace(s, vend + 1), m2)
    IN IF ~At(s, p, Quote) \/ ~k.ok \/ ~At(s, colon, ":") THEN [err |-> "json syntax", m |-> m]
       ELSE IF ~isStr /\ ~null /\ nd = 0 THEN [err |-> "json syntax", m |-> m]
       ELSE IF At(s, vend, ",") THEN
              IF more.err = "" /\ ~isStr /\ ~null THEN [err |-> "json type", m |-> m] ELSE more
       ELSE IF At(s, vend, "}") /\ SkipSpace(s, vend + 1) = Len(s) + 1 THEN
              IF ~isStr /\ ~null THEN [err |-> "json type", m |-> m]
              ELSE [err |-> "", m |-> m2]
       ELSE [err |-> "json syntax", m |-> m]

\* json.Unmarshal([]byte(s), &map[string]string): objects whose values are
\* strings, null or numbers (a number is a type error); null leaves the map nil
JsonUnmarshalMap(s) ==
    LET p == SkipSpace(s, 1)
        q == SkipSpace(s, p + 1)
        body == JsonMembers(s, q, {})
    IN IF IsNull(s, p) /\ SkipSpace(s, p + 4) = Len(s) + 1 THEN Ok(NilMapValue)
       ELSE IF ~At(s, p, "{") THEN Fail("json syntax")
       ELSE IF At(s, q, "}") THEN
              IF SkipSpace(s, q + 1) = Len(s) + 1 THEN Ok(MapValue({})) ELSE Fail("json syntax")
       ELSE IF body.err # "" THEN Fail(body.err)
       ELSE Ok(MapValue(body.m))

\* part_001 lines 205-215: one layer of surrounding quotes is removed
StripQuotes(value) ==
    LET mapValue == TrimSpace(value)
        n == Len(mapValue)
        inner == SubSeq(mapValue, 2, n - 1)
    IN IF n >= 2 /\ mapValue[1] = Quote /\ mapValue[n] = Quote
       THEN (IF Unquote(mapValue).ok THEN Unquote(mapValue).str ELSE inner)
       ELSE IF n >= 2 /\ mapValue[1] = "'" /\ mapValue[n] = "'" THEN inner
       ELSE mapValue

(***************************************************************************)
(* Struct types.  A field declaration carries what reflect reports for it: *)
(* its name, its type (name, kind, bit size, map key kind, method set),    *)
(* whether it is exported, its tags, and for a struct its own fields.      *)
(***************************************************************************)
FieldDecl(name, typeName, kind, bits, setter, keyKind, exported, fields) ==
    [Name |-> name, TypeName |-> typeName, Kind |-> kind, Bits |-> bits,
     Setter |-> setter, KeyKind |-> keyKind, Exported |-> exported,
     Env |-> <<>>, Default |-> <<>>, RequiredTag |-> <<>>, Fields |-> fields]

\* the declaration with its `env`, `default` and `required` tags
Tagged(decl, env, def, req) ==
    [decl EXCEPT !.Env = env, !.Default = def, !.RequiredTag = req]

\* reflect.Zero of the field's type
ZeroValue(decl) ==
    CASE decl.Setter # "none" -> CustomValue(<<>>)
      [] decl.Kind = "string" -> StringValue(<<>>)
      [] decl.Kind \in {"int", "int8", "int16", "int32", "int64"} -> IntValue(0)
      [] decl.Kind = "bool" -> BoolValue(FALSE)
      [] decl.Kind \in {"float32", "float64"} -> FloatValue(0, 0)
      [] decl.Kind = "map" -> NilMapValue
      [] decl.Kind = "uint" -> UintValue(0)
      [] OTHER -> SliceValue(<<>>)

(***************************************************************************)
(* Errors.  Nil is the nil error.                                          *)
(***************************************************************************)
Error(type, key, fieldName, fieldType, fieldValue, fieldErr) ==
    [type |-> type, key |-> key, fieldName |-> fieldName, fieldType |-> fieldType,
     fieldValue |-> fieldValue, fieldErr |-> fieldErr]

Nil == Error("nil", <<>>, <<>>, "", <<>>, "")

\* config.go line 13
ErrInvalidConfig == Error("ErrInvalidConfig", <<>>, <<>>, "", <<>>, "")

\* config.go line 47: fmt.Errorf("config: required key %s missing value", key)
RequiredError(key) == Error("required", key, <<>>, "", <<>>, "")

\* config.go lines 51-56
FieldError(fieldName, fieldType, fieldValue, fieldErr) ==
    Error("FieldError", <<>>, fieldName, fieldType, fieldValue, fieldErr)

(***************************************************************************)
(* extractFields                                                           *)
(***************************************************************************)
\* part_001 line 107: reflect.TypeOf(cfg) is nil for a nil interface value
TypeOfIsNil(targetKind) == targetKind = "nil"

\* part_001 lines 107-113: the target must be a pointer to a struct
IsPtrToStruct(targetKind) == targetKind = "ptr_struct"

\* the prefix is not extended by the nested field's name
NewPrefix_Unextended(prefix, decl) == prefix

\* part_001 line 123
NewPrefix(prefix, decl) == Sprintf_s_s(prefix, decl.Name)

\* part_001 line 131
EnvKeyOf(decl) == ToUpper(decl.Env)

\* part_001 lines 132-141
KeyOf(prefix, decl) ==
    LET envKey == EnvKeyOf(decl)
        key == IF envKey # <<>> THEN envKey ELSE decl.Name
        prefixed == IF prefix # <<>> THEN ToUpper(Sprintf_s_s(prefix, key)) ELSE key
    IN ToUpper(prefixed)

\* part_001 lines 249-252
isTrue(value) == ParseBool(value).err = "" /\ ParseBool(value).val.b

\* part_001 lines 142-153: the descriptor of the leaf field at path
MakeField(prefix, decl, path) ==
    [Name |-> decl.Name, Field |-> path, Type |-> decl,
     Key |-> KeyOf(prefix, decl), Required |-> isTrue(decl.RequiredTag),
     Default |-> decl.Default, EnvKey |-> EnvKeyOf(decl)]

(***************************************************************************)
(* parseField                                                              *)
(***************************************************************************)
\* The Set method of a custom type is the caller's code: this one rejects
\* the literal "bad" and accepts every other string.
SetterRejects(value) == value = <<"b","a","d">>

\* the Setter is looked for on the field value only
extractSetter_ValueOnly(decl) == IF decl.Setter = "value" THEN "value" ELSE "nil"

\* part_001 lines 228-247: the Setter is looked for on the field value, then
\* on a pointer to it (whose method set includes the value's methods)
extractSetter(decl) ==
    IF decl.Setter = "value" THEN "value"
    ELSE IF decl.Setter = "pointer" THEN "pointer"
    ELSE "nil"

\* part_001 lines 170-222: the built-in conversion chosen by the kind
Coerce(value, decl) ==
    CASE decl.Kind = "string" -> Ok(StringValue(value))
      [] decl.Kind \in {"int", "int8", "int16", "int32", "int64"} ->
           IF decl.Kind = "int64" /\ decl.TypeName = "time.Duration"
           THEN ParseDuration(value)
           ELSE ParseInt(value, decl.Bits)
      [] decl.Kind = "bool" -> ParseBool(value)
      [] decl.Kind \in {"float32", "float64"} -> ParseFloat(value)
      [] decl.Kind = "map" ->
           IF decl.KeyKind # "string" THEN Fail("map keys must be strings")
           ELSE JsonUnmarshalMap(StripQuotes(value))
      [] OTHER -> Ok(ZeroValue(decl))

\* whether the switch of parseField has a case for the kind
HasCase(decl) ==
    decl.Kind \in {"string", "int", "int8", "int16", "int32", "int64", "bool",
                   "float32", "float64", "map"}

\* a failed conversion is not reported
parseField_SwallowsErrors(value, decl, old) ==
    [err |-> "", set |-> extractSetter(decl) # "nil", wrote |-> FALSE, val |-> old]

\* part_001 lines 161-223.  old is the field's value; the result tells the
\* error ("" for nil), whether Set was called, whether the field was written
\* and the field's value afterwards.
parseField(value, decl, old) ==
    LET setter == extractSetter(decl)
        c == Coerce(value, decl)
    IN IF setter # "nil"
       THEN [err |-> IF SetterRejects(value) THEN "set" ELSE "",
             set |-> TRUE,
             wrote |-> setter = "pointer" /\ ~SetterRejects(value),
             val |-> IF setter = "pointer" /\ ~SetterRejects(value)
                     THEN CustomValue(value) ELSE old]
       ELSE IF c.err # "" THEN [err |-> c.err, set |-> FALSE, wrote |-> FALSE, val |-> old]
       ELSE IF HasCase(decl) THEN [err |-> "", set |-> FALSE, wrote |-> TRUE, val |-> c.val]
       ELSE [err |-> "", set |-> FALSE, wrote |-> FALSE, val |-> old]

(***************************************************************************)
(* Parse: the resolution of one descriptor                                 *)
(***************************************************************************)
\* os.LookupEnv: the empty name is never set
LookupEnv(env, key) ==
    IF key # <<>> /\ key \in DOMAIN env
    THEN [value |-> env[key], ok |-> TRUE]
    ELSE [value |-> <<>>, ok |-> FALSE]

\* the bare override key is never consulted
Lookup_KeyOnly(env, field) == LookupEnv(env, field.Key)

\* config.go lines 32-35
Lookup(env, field) ==
    LET first == LookupEnv(env, field.EnvKey)
    IN IF ~first.ok THEN LookupEnv(env, field.Key) ELSE first

\* config.go lines 37-40
WithDefault(found, field) ==
    IF field.Default # <<>> /\ ~found.ok THEN field.Default ELSE found.value

\* a required field is reported missing although it has a default
RequiredMissing_IgnoresDefault(found, field) == ~found.ok /\ field.Required

\* config.go line 42
RequiredMissing(found, field) == ~found.ok /\ field.Required /\ field.Default = <<>>

\* config.go lines 43-46
ErrorKey(field) == IF field.EnvKey # <<>> THEN field.EnvKey ELSE field.Key

(***************************************************************************)
(* State                                                                   *)
(***************************************************************************)
VARIABLES
    prefix0,   \* the prefix the caller passes
    target,    \* the value the caller passes: [kind, type]
    environ,   \* the process environment: a function from names to values
    cfg,       \* the target's leaf fields: a function from paths to values
    cfg0,      \* cfg as it was before the call
    api,       \* "Parse" or "MustParse", "" before the call
    pc,        \* "idle", "running", "returned", "done" or "panicked"
    stack,     \* the active calls of Parse, the innermost last
    ret,       \* the result of a nested Parse that has just returned
    err,       \* the error the outermost Parse returned
    log        \* what Parse did, in order: lookups, parseField calls, writes

vars == <<prefix0, target, environ, cfg, cfg0, api, pc, stack, ret, err, log>>

\* the paths of the leaf fields of a struct type, a path being the field
\* indices from the root
RECURSIVE LeafPaths(_, _)
LeafPaths(fields, pre) ==
    UNION {IF fields[i].Kind = "struct"
           THEN LeafPaths(fields[i].Fields, Append(pre, i))
           ELSE {Append(pre, i)} : i \in 1..Len(fields)}

RECURSIVE DeclAt(_, _)
DeclAt(fields, path) ==
    IF Len(path) = 1 THEN fields[path[1]]
    ELSE DeclAt(fields[path[1]].Fields, Drop(path, 1))

\* a call of Parse: its prefix, the struct it parses (path and fields), the
\* position i of extractFields' loop, the descriptors extracted so far and
\* the position j of Parse's loop over them
Frame(prefix, path, fields) ==
    [prefix |-> prefix, path |-> path, struct |-> fields, i |-> 1, fields |-> <<>>, j |-> 1]

Top == stack[Len(stack)]

Pop == SubSeq(stack, 1, Len(stack) - 1)

SetTop(f) == [stack EXCEPT ![Len(stack)] = f]

NoReturn == [pending |-> FALSE, err |-> Nil]

Extracting == pc = "running" /\ stack # <<>> /\ ~ret.pending /\ Top.i <= Len(Top.struct)

Resolving == pc = "running" /\ stack # <<>> /\ ~ret.pending /\ Top.i > Len(Top.struct)

\* the innermost Parse returns e: to the extractFields that called it, or to
\* the caller of the outermost Parse
Return(e) ==
    /\ stack' = Pop
    /\ IF Len(stack) = 1
       THEN pc' = "returned" /\ err' = e /\ ret' = NoReturn
       ELSE pc' = pc /\ err' = err /\ ret' = [pending |-> TRUE, err |-> e]

\* config.go lines 23-29 with part_001 lines 106-116: the call of Parse on
\* the caller's target.  reflect.TypeOf of a nil interface is nil, and the
\* call of Kind on it is a nil dereference: a run-time panic inside Parse.
Enter ==
    IF TypeOfIsNil(target.kind)
    THEN /\ stack' = stack
         /\ pc' = "panicked"
         /\ err' = err
    ELSE IF IsPtrToStruct(target.kind)
    THEN /\ stack' = <<Frame(prefix0, <<>>, target.type)>>
         /\ pc' = "running"
         /\ err' = err
    ELSE /\ stack' = stack
         /\ pc' = "returned"
         /\ err' = ErrInvalidConfig

\* config.go line 23: the caller calls Parse
Parse ==
    /\ pc = "idle"
    /\ api' = "Parse"
    /\ Enter
    /\ UNCHANGED <<prefix0, target, environ, cfg, cfg0, ret, log>>

\* config.go lines 65-66: the caller calls MustParse, which calls Parse
MustParse ==
    /\ pc = "idle"
    /\ api' = "MustParse"
    /\ Enter
    /\ UNCHANGED <<prefix0, target, environ, cfg, cfg0, ret, log>>

\* config.go lines 66-68: Parse has returned to MustParse
MustParseOutcome(e) == IF e # Nil THEN "panicked" ELSE "done"

MustParseReturn ==
    /\ pc = "returned"
    /\ api = "MustParse"
    /\ pc' = MustParseOutcome(err)
    /\ UNCHANGED <<prefix0, target, environ, cfg, cfg0, api, stack, ret, err, log>>

\* part_001 lines 119-121: a field that cannot be set is skipped
ExtractUnexported ==
    /\ Extracting
    /\ ~Top.struct[Top.i].Exported
    /\ stack' = SetTop([Top EXCEPT !.i = @ + 1])
    /\ UNCHANGED <<prefix0, target, environ, cfg, cfg0, api, pc, ret, err, log>>

\* part_001 lines 122-124: a struct field is handed to Parse
ExtractNested ==
    /\ Extracting
    /\ Top.struct[Top.i].Exported
    /\ Top.struct[Top.i].Kind = "struct"
    /\ stack' = Append(stack, Frame(NewPrefix(Top.prefix, Top.struct[Top.i]),
                                    Append(Top.path, Top.i),
                                    Top.struct[Top.i].Fields))
    /\ UNCHANGED <<prefix0, target, environ, cfg, cfg0, api, pc, ret, err, log>>

\* part_001 lines 124-128 and config.go lines 26-29: the nested Parse has
\* returned; its error ends extractFields and the calling Parse
NestedReturn ==
    /\ pc = "running"
    /\ ret.pending
    /\ IF ret.err # Nil
       THEN Return(ret.err)
       ELSE /\ stack' = SetTop([Top EXCEPT !.i = @ + 1])
            /\ ret' = NoReturn
            /\ UNCHANGED <<pc, err>>
    /\ UNCHANGED <<prefix0, target, environ, cfg, cfg0, api, log>>

\* part_001 lines 131-155: a leaf field gets its descriptor
ExtractLeaf ==
    /\ Extracting
    /\ Top.struct[Top.i].Exported
    /\ Top.struct[Top.i].Kind # "struct"
    /\ stack' = SetTop([Top EXCEPT
                          !.fields = Append(@, MakeField(Top.prefix, Top.struct[Top.i],
                                                         Append(Top.path, Top.i))),
                          !.i = @ + 1])
    /\ UNCHANGED <<prefix0, target, environ, cfg, cfg0, api, pc, ret, err, log>>

\* config.go lines 31-58: one iteration of the loop over the descriptors
Resolve ==
    /\ Resolving
    /\ Top.j <= Len(Top.fields)
    /\ LET field == Top.fields[Top.j]
           found == Lookup(environ, field)
           value == WithDefault(found, field)
           r == parseField(value, field.Type, cfg[field.Field])
           looked == [op |-> "resolve", path |-> field.Field, key |-> field.Key,
                      value |-> value, ok |-> found.ok]
           called == [op |-> IF r.set THEN "Set" ELSE "parseField", path |-> field.Field,
                      key |-> field.Key, value |-> value, ok |-> r.err = ""]
       IN IF RequiredMissing(found, field)
          THEN /\ Return(RequiredError(ErrorKey(field)))
               /\ log' = Append(log, looked)
               /\ cfg' = cfg
          ELSE /\ log' = log \o <<looked, called>>
               /\ cfg' = [cfg EXCEPT ![field.Field] = r.val]
               /\ IF r.err # ""
                  THEN Return(FieldError(field.Name, field.Type.TypeName, value, r.err))
                  ELSE /\ stack' = SetTop([Top EXCEPT !.j = @ + 1])
                       /\ UNCHANGED <<pc, ret, err>>
    /\ UNCHANGED <<prefix0, target, environ, cfg0, api>>

\* config.go line 60
ParseReturn ==
    /\ Resolving
    /\ Top.j > Len(Top.fields)
    /\ Return(Nil)
    /\ UNCHANGED <<prefix0, target, environ, cfg, cfg0, api, log>>

Next ==
    \/ Parse
    \/ MustParse
    \/ MustParseReturn
    \/ ExtractUnexported
    \/ ExtractNested
    \/ NestedReturn
    \/ ExtractLeaf
    \/ Resolve
    \/ ParseReturn

(***************************************************************************)
(* The calls that are checked: a target type built around one leaf field   *)
(* (the field under study), a prefix and an environment.                   *)
(***************************************************************************)
\* how deep the field under study is nested
MaxDepth == 2

Prefixes == {<<>>, <<"a","p","p">>}

EnvTags == {<<>>, <<"m","y","_","p","o","r","t">>}

RequiredTags == {<<>>, <<"t","r","u","e">>}

Leaf(name, typeName, kind, bits, setter, keyKind) ==
    FieldDecl(name, typeName, kind, bits, setter, keyKind, TRUE, <<>>)

\* the types of the field under study; Level and Mode are custom types with
\* a Set method, on the pointer and on the value
StudyTypes ==
    {Leaf(<<"P","o","r","t">>, "string", "string", 0, "none", ""),
     Leaf(<<"P","o","r","t">>, "int", "int", 64, "none", ""),
     Leaf(<<"P","o","r","t">>, "int8", "int8", 8, "none", ""),
     Leaf(<<"P","o","r","t">>, "bool", "bool", 0, "none", ""),
     Leaf(<<"P","o","r","t">>, "float64", "float64", 64, "none", ""),
     Leaf(<<"P","o","r","t">>, "time.Duration", "int64", 64, "none", ""),
     Leaf(<<"P","o","r","t">>, "map[string]string", "map", 0, "none", "string"),
     Leaf(<<"P","o","r","t">>, "map[int]string", "map", 0, "none", "int"),
     Leaf(<<"P","o","r","t">>, "uint", "uint", 64, "none", ""),
     Leaf(<<"P","o","r","t">>, "[]string", "slice", 0, "none", ""),
     Leaf(<<"P","o","r","t">>, "config.Level", "int", 64, "pointer", ""),
     Leaf(<<"P","o","r","t">>, "config.Mode", "string", 0, "value", "")}

JsonAB == <<"{",Quote,"a",Quote,":",Quote,"b",Quote,"}">>

\* the values the environment may give the field under study
Literals(decl) ==
    CASE decl.TypeName = "string" -> {<<>>, <<"l","o","c","a","l","h","o","s","t">>, <<"x">>}
      [] decl.TypeName = "int" -> {<<>>, <<"7">>, <<"n","o","t","_","a","_","n","u","m","b","e","r">>}
      [] decl.TypeName = "int8" -> {<<>>, <<"0","x","1","f">>, <<"3","0","0">>}
      [] decl.TypeName = "bool" -> {<<>>, <<"t">>, <<"x">>}
      [] decl.TypeName = "float64" -> {<<>>, <<"1",".","5">>, <<"x">>}
      [] decl.TypeName = "time.Duration" -> {<<>>, <<"2","s">>, <<"7">>}
      [] decl.TypeName = "map[string]string" -> {<<>>, JsonAB, <<"'">> \o JsonAB \o <<"'">>}
      [] decl.TypeName = "map[int]string" -> {<<>>, <<"{","}">>}
      [] decl.TypeName = "uint" -> {<<>>, <<"7">>}
      [] decl.TypeName = "[]string" -> {<<"x">>}
      [] decl.TypeName = "config.Level" -> {<<>>, <<"7">>, <<"b","a","d">>}
      [] OTHER -> {<<"7">>, <<"b","a","d">>}

\* the `default` tags the field under study may carry
Defaults(decl) ==
    CASE decl.TypeName = "string" -> {<<>>, <<"j","o","s","e","p","h">>}
      [] decl.TypeName = "int" -> {<<>>, <<"8","0","8","0">>}
      [] decl.TypeName = "int8" -> {<<>>, <<"8">>, <<"3","0","0">>}
      [] decl.TypeName = "bool" -> {<<>>, <<"t","r","u","e">>}
      [] decl.TypeName = "float64" -> {<<>>, <<"2">>}
      [] decl.TypeName = "time.Duration" -> {<<>>, <<"1","5","0","m","s">>}
      [] decl.TypeName = "map[string]string" -> {<<>>, <<"{","}">>}
      [] decl.TypeName = "map[int]string" -> {<<>>}
      [] OTHER -> {<<>>, <<"8">>}

StudyFields ==
    UNION {{Tagged(d, e, def, r) : e \in EnvTags, r \in RequiredTags, def \in Defaults(d)} :
           d \in StudyTypes}

\* the siblings of the field under study
HostField == Leaf(<<"H","o","s","t">>, "string", "string", 0, "none", "")

NumField == Leaf(<<"N","u","m">>, "int8", "int8", 8, "none", "")

SecretField ==
    FieldDecl(<<"s","e","c","r","e","t">>, "string", "string", 0, "none", "", FALSE, <<>>)

DBField(fields) == FieldDecl(<<"D","B">>, "struct", "struct", 0, "none", "", TRUE, fields)

\* {Host; DB{ ... {Host; DB{F}; Num} ... }; Num}: F nested d structs deep
RECURSIVE Chain(_, _)
Chain(F, d) == IF d = 0 THEN <<F>> ELSE <<HostField, DBField(Chain(F, d - 1)), NumField>>

\* the path of F in Chain(F, d)
RECURSIVE ChainPath(_)
ChainPath(d) == IF d = 0 THEN <<1>> ELSE <<2>> \o ChainPath(d - 1)

\* the struct types around F, each with the path of F in it and its depth
Shapes(F) ==
    {[type |-> <<F>>, path |-> <<1>>, depth |-> 0],
     [type |-> <<HostField, F, NumField>>, path |-> <<2>>, depth |-> 0],
     [type |-> <<SecretField, F>>, path |-> <<2>>, depth |-> 0]}
    \cup {[type |-> Chain(F, d), path |-> ChainPath(d), depth |-> d] : d \in 1..MaxDepth}

\* the prefix in force d structs below the root (README, Nested Configuration)
RECURSIVE PrefixAt(_, _)
PrefixAt(p, d) == IF d = 0 THEN p ELSE PrefixAt(p, d - 1) \o <<"_">> \o <<"D","B">>

\* the name of the environment variable for base under prefix p
EnvName(p, base) == ToUpper(IF p = <<>> THEN base ELSE p \o <<"_">> \o base)

\* the names under which the environment may hold a value for F: the override
\* (or, without one, the declared name) under the prefix, the bare override,
\* and the declared name under the prefix
PrefixedName(p, d, F) == EnvName(PrefixAt(p, d), IF F.Env # <<>> THEN F.Env ELSE F.Name)

BareName(F) == ToUpper(F.Env)

DeclaredName(p, d, F) == EnvName(PrefixAt(p, d), F.Name)

StudyNames(p, d, F) ==
    {PrefixedName(p, d, F)} \cup (IF F.Env # <<>> THEN {BareName(F)} ELSE {})

Unset == <<"unset">>

\* the environment: the siblings' variables are set at every level, the
\* variable of F's declared name is set when F has an override, and the
\* study names are set as `assign` says
Environment(p, d, F, assign) ==
    LET siblings == UNION {{<<DeclaredName(p, k, HostField), <<"l","o","c","a","l","h","o","s","t">>>>,
                            <<DeclaredName(p, k, NumField), <<"7">>>>} : k \in 0..MaxDepth}
        declared == IF F.Env # <<>> THEN {<<DeclaredName(p, d, F), <<"9">>>>} ELSE {}
        study == {<<k, assign[k]>> : k \in {n \in DOMAIN assign : assign[n] # Unset}}
        all == siblings \cup declared \cup study
    IN [k \in {kv[1] : kv \in all} |-> (CHOOSE kv \in all : kv[1] = k)[2]]

\* values a field may hold before the call
PriorValues(F) ==
    {ZeroValue(F)} \cup
    (IF F.TypeName = "string" THEN {StringValue(<<"o","l","d">>)}
     ELSE IF F.TypeName = "uint" THEN {UintValue(5)}
     ELSE {})

InitialConfig(type, path, prior) ==
    [q \in LeafPaths(type, <<>>) |-> IF q = path THEN prior ELSE ZeroValue(DeclAt(type, q))]

\* targets that are not a pointer to a struct: a struct passed by value, a
\* map, a pointer to a string (config_test.go lines 36-69) and nil
InvalidKinds == {"struct", "map", "ptr_string", "nil"}

Start(p, kind, type, env, c) ==
    /\ prefix0 = p
    /\ target = [kind |-> kind, type |-> type]
    /\ environ = env
    /\ cfg = c
    /\ cfg0 = c
    /\ api = ""
    /\ pc = "idle"
    /\ stack = <<>>
    /\ ret = NoReturn
    /\ err = Nil
    /\ log = <<>>

Init ==
    \E p \in Prefixes, F \in StudyFields :
      \E sh \in Shapes(F), prior \in PriorValues(F) :
        \E assign \in [StudyNames(p, sh.depth, F) -> Literals(F) \cup {Unset}] :
          \/ Start(p, "ptr_struct", sh.type, Environment(p, sh.depth, F, assign),
                   InitialConfig(sh.type, sh.path, prior))
          \/ /\ F.TypeName = "int" /\ F.Env = <<>> /\ sh.depth = 0
             /\ \E kind \in InvalidKinds :
                  Start(p, kind, IF kind = "struct" THEN sh.type ELSE <<>>,
                        Environment(p, sh.depth, F, assign),
                        IF kind = "struct" THEN InitialConfig(sh.type, sh.path, prior)
                        ELSE << >>)

Spec == Init /\ [][Next]_vars

(***************************************************************************)
(* What the properties speak of                                            *)
(***************************************************************************)
Leaves == LeafPaths(target.type, <<>>)

DeclOf(q) == DeclAt(target.type, q)

\* the prefix in force for the field at path: the caller's prefix extended,
\* struct by struct, by "_" and the nested field's declared name
RECURSIVE PrefixOf(_, _, _)
PrefixOf(fields, p, path) ==
    IF Len(path) = 1 THEN p
    ELSE PrefixOf(fields[path[1]].Fields, p \o <<"_">> \o fields[path[1]].Name, Drop(path, 1))

KeyBase(decl) == IF decl.Env # <<>> THEN decl.Env ELSE decl.Name

\* the prefixed lookup key and the bare override key of the field at q
PrimaryName(q) == EnvName(PrefixOf(target.type, prefix0, q), KeyBase(DeclOf(q)))

FallbackName(q) == ToUpper(DeclOf(q).Env)

IsSet(name) == name # <<>> /\ name \in DOMAIN environ

Absent(q) == ~IsSet(PrimaryName(q)) /\ ~IsSet(FallbackName(q))

MarkedRequired(q) == DeclOf(q).RequiredTag = <<"t","r","u","e">>

\* the error of the Parse that returned last
CurrentError == IF ret.pending THEN ret.err ELSE err

Resolutions == {i \in DOMAIN log : log[i].op = "resolve"}

Coercions == {i \in DOMAIN log : log[i].op \in {"parseField", "Set"}}

\* the kinds with a built-in conversion: string, signed integers, booleans,
\* floats and string-keyed maps
BuiltIn(decl) ==
    /\ decl.Setter = "none"
    /\ \/ decl.Kind \in {"string", "int", "int8", "int16", "int32", "int64", "bool",
                         "float32", "float64"}
       \/ decl.Kind = "map" /\ decl.KeyKind = "string"

\* the value a literal stands for in the field's type
Coerced(decl, literal, old) ==
    IF decl.Setter = "pointer" THEN CustomValue(literal)
    ELSE IF decl.Setter = "value" THEN old
    ELSE IF decl.Kind = "uint" THEN UintValue(ParseUint(literal).n)
    ELSE Coerce(literal, decl).val

(***************************************************************************)
(* Properties                                                              *)
(***************************************************************************)
\* C1: for a field with an `env` override, whenever both the prefixed key and
\* the bare override key are set, the value resolved for the field is the one
\* stored under the prefixed key.
C1_PrefixedKeyWins ==
    \A i \in Resolutions :
        (/\ DeclOf(log[i].path).Env # <<>>
         /\ IsSet(PrimaryName(log[i].path))
         /\ IsSet(FallbackName(log[i].path)))
        => log[i].value = environ[PrimaryName(log[i].path)]

\* C2: a field that is not required, has no default and has no environment
\* entry under either key is never handed to a conversion or to Set, and it
\* keeps the value it had before the call.
C2_AbsentOptionalUntouched ==
    /\ \A i \in Coercions :
          ~(/\ Absent(log[i].path)
            /\ ~MarkedRequired(log[i].path)
            /\ DeclOf(log[i].path).Default = <<>>)
    /\ \A q \in Leaves :
          (Absent(q) /\ ~MarkedRequired(q) /\ DeclOf(q).Default = <<>>) => cfg[q] = cfg0[q]

C4_DefaultApplied ==
    (pc \in {"returned", "done"} /\ err = Nil)
    => \A q \in Leaves :
         (DeclOf(q).Exported /\ DeclOf(q).Default # <<>> /\ Absent(q))
         => cfg[q] = Coerced(DeclOf(q), DeclOf(q).Default, cfg0[q])

\* C5: for a field with an `env` override, when the prefixed key is not set
\* and the bare upper-cased override key is, the field is resolved from the
\* bare key: its value is the one handed to the conversion, and a field of a
\* built-in kind holds it, converted, when the conversion succeeds.
C5_BareOverrideResolves ==
    \A i \in Resolutions :
      LET q == log[i].path
      IN (DeclOf(q).Env # <<>> /\ ~IsSet(PrimaryName(q)) /\ IsSet(FallbackName(q)))
         => /\ log[i].ok
            /\ log[i].value = environ[FallbackName(q)]
            /\ i < Len(log)
            /\ log[i + 1].op \in {"parseField", "Set"}
            /\ log[i + 1].path = q
            /\ log[i + 1].value = environ[FallbackName(q)]
            /\ (BuiltIn(DeclOf(q)) /\ Coerce(environ[FallbackName(q)], DeclOf(q)).err = "")
                 => cfg[q] = Coerce(environ[FallbackName(q)], DeclOf(q)).val

C5_Witness ==
    /\ pc = "returned"
    /\ err = Nil
    /\ prefix0 # <<>>
    /\ \E q \in Leaves :
         /\ DeclOf(q).Env # <<>>
         /\ ~IsSet(PrimaryName(q))
         /\ IsSet(FallbackName(q))
         /\ cfg[q] = IntValue(7)

\* C6: at every nesting depth the primary lookup key of a field is the
\* upper-case of prefix + "_" + keyBase (of keyBase alone under an empty
\* prefix), keyBase being the `env` override if present and the declared name
\* otherwise, and the prefix inside a nested struct being the parent's prefix
\* + "_" + the nested field's name; a field whose primary key alone is set is
\* resolved from it.
C6_PrimaryKey ==
    /\ \A k \in DOMAIN stack : \A n \in DOMAIN stack[k].fields :
          stack[k].fields[n].Key = PrimaryName(stack[k].fields[n].Field)
    /\ \A i \in Resolutions :
         LET q == log[i].path
         IN /\ log[i].key = PrimaryName(q)
            /\ (IsSet(PrimaryName(q)) /\ (~IsSet(FallbackName(q)) \/ FallbackName(q) = PrimaryName(q)))
                 => (log[i].ok /\ log[i].value = environ[PrimaryName(q)])

C6_Witness ==
    /\ pc = "returned"
    /\ err = Nil
    /\ prefix0 = <<"a","p","p">>
    /\ \E i \in Resolutions :
         /\ Len(log[i].path) = 3
         /\ log[i].key = <<"A","P","P","_","D","B","_","D","B","_","M","Y","_","P","O","R","T">>
         /\ IsSet(log[i].key)
         /\ ~IsSet(FallbackName(log[i].path))
         /\ cfg[log[i].path] = IntValue(7)

\* C7: for a target that is not a pointer to a struct, Parse returns
\* ErrInvalidConfig as an error value, resolves no field and leaves the
\* target as it was.
C7_InvalidTarget ==
    (api = "Parse" /\ target.kind # "ptr_struct")
    => /\ pc = "returned"
       /\ err = ErrInvalidConfig
       /\ log = <<>>
       /\ cfg = cfg0

\* C8: a resolved value for a field whose type has neither a Set method nor a
\* built-in conversion makes Parse fail with a field error.
C8_UnsupportedKindFails ==
    \A i \in Coercions :
        ~BuiltIn(DeclOf(log[i].path)) /\ DeclOf(log[i].path).Setter = "none"
        => /\ ~log[i].ok
           /\ i = Len(log)
           /\ CurrentError.type = "FieldError"

\* C9: when the resolved string of a field cannot be converted to the field's
\* type, or its Set method rejects it, Parse returns a FieldError with the
\* field's declared name, its type name, the string and the cause, and
\* nothing is resolved afterwards.
C9_FieldError ==
    \A i \in Coercions :
      LET d == DeclOf(log[i].path)
          v == log[i].value
          cause == IF d.Setter # "none"
                   THEN (IF SetterRejects(v) THEN "set" ELSE "")
                   ELSE Coerce(v, d).err
      IN /\ v = log[i - 1].value
         /\ cause # ""
            => /\ i = Len(log)
               /\ CurrentError = FieldError(d.Name, d.TypeName, v, cause)
               /\ stack = <<>> \/ ret.pending

C9_Witness ==
    /\ pc = "returned"
    /\ err = FieldError(<<"P","o","r","t">>, "int", <<"n","o","t","_","a","_","n","u","m","b","e","r">>, "syntax")
    /\ Len(target.type) = 3
    /\ cfg[<<3>>] = IntValue(0)
    /\ IsSet(PrimaryName(<<3>>))

\* C10: MustParse panics exactly when Parse returns a non-nil error, and
\* returns normally, with the target as Parse left it, when Parse returns nil.
C10_PanicsIffError ==
    api = "MustParse"
    => /\ pc = "panicked" => (err # Nil)
       /\ pc = "done" => (err = Nil /\ stack = <<>>)

\* path p comes before path q in depth-first declaration order (the paths of
\* two leaves are never a prefix of one another)
RECURSIVE Before(_, _)
Before(p, q) ==
    IF p = <<>> \/ q = <<>> THEN FALSE
    ELSE IF p[1] # q[1] THEN p[1] < q[1]
    ELSE Before(Drop(p, 1), Drop(q, 1))

\* the call was made on a pointer to a struct and has returned
Returned == pc \in {"returned", "done"} /\ target.kind = "ptr_struct"

\* C11: the leaf fields are resolved in depth-first declaration order, the
\* leaves of a nested struct after every sibling declared before it and
\* before every sibling declared after it; no leaf is resolved twice, and a
\* Parse that returns nil has resolved every settable leaf.
C11_DepthFirstOrder ==
    /\ \A i, k \in Resolutions : i < k => Before(log[i].path, log[k].path)
    /\ (Returned /\ err = Nil)
         => \A q \in Leaves :
              DeclOf(q).Exported => \E i \in Resolutions : log[i].path = q

\* every leaf held its zero value before the call
AllZero == \A q \in Leaves : cfg0[q] = ZeroValue(DeclOf(q))

\* the leaf whose resolution ended Parse with an error
FailingPath == log[Len(log)].path

\* C12: when Parse on an all-zero struct returns the error of leaf F, every
\* settable leaf before F in depth-first declaration order has been resolved
\* without error and holds its resolved string converted to its type, and
\* every leaf after F in that order still holds its zero value.
C12_PartialResult ==
    (Returned /\ err # Nil /\ AllZero)
    => /\ log # <<>>
       /\ \A i \in Coercions : i < Len(log) => log[i].ok
       /\ \A q \in Leaves :
            /\ (DeclOf(q).Exported /\ Before(q, FailingPath))
                 => \E i \in Resolutions :
                      /\ log[i].path = q
                      /\ cfg[q] = Coerced(DeclOf(q), log[i].value, cfg0[q])
            /\ Before(FailingPath, q) => cfg[q] = ZeroValue(DeclOf(q))

\* C13: a leaf whose type has a Set method, on the value or on the pointer,
\* is never converted by the built-in rules: the string resolved for it is
\* handed to Set, once, and the outcome of Set is the outcome of the field.  A
\* rejected string ends Parse with the field's FieldError carrying Set's
\* error; the field holds what Set stored (nothing, for a Set on the value)
\* and never a built-in conversion of the string; when Parse returns nil, Set
\* has been called on every such leaf.
C13_SetterAuthoritative ==
    /\ \A i \in Coercions :
         LET q == log[i].path
             d == DeclOf(q)
         IN d.Setter # "none"
            => /\ log[i].op = "Set"
               /\ log[i - 1].op = "resolve"
               /\ log[i - 1].path = q
               /\ log[i].value = log[i - 1].value
               /\ \A k \in Coercions : log[k].path = q => k = i
               /\ log[i].ok = ~SetterRejects(log[i].value)
               /\ ~log[i].ok
                    => /\ i = Len(log)
                       /\ CurrentError = FieldError(d.Name, d.TypeName, log[i].value, "set")
               /\ cfg[q] = (IF d.Setter = "pointer" /\ log[i].ok
                            THEN CustomValue(log[i].value) ELSE cfg0[q])
    /\ \A q \in Leaves :
         DeclOf(q).Setter # "none"
         => /\ (\A i \in Coercions : log[i].path # q) => cfg[q] = cfg0[q]
            /\ (Returned /\ err = Nil) => \E i \in Coercions : log[i].path = q

C13_Witness ==
    /\ Returned
    /\ err = Nil
    /\ \E i \in Coercions :
         /\ DeclOf(log[i].path).Setter = "pointer"
         /\ DeclOf(log[i].path).Kind = "int"
         /\ log[i].op = "Set"
         /\ log[i].value = <<"7">>
         /\ IsSet(PrimaryName(log[i].path))
         /\ cfg[log[i].path] = CustomValue(<<"7">>)

\* the environment holds the empty string under name
SetEmpty(name) == IsSet(name) /\ environ[name] = <<>>

\* C14: a key set to the empty string counts as present.  For a leaf whose
\* prefixed key or bare override key is set to "", the resolution finds a
\* value, does not take the default and does not end with the required-key
\* error; the empty string is what is converted: a field of a built-in kind
\* holds the conversion of "" when there is one (a string field becomes "")
\* and Parse ends with the field's FieldError when there is none (an integer
\* field).
C14_EmptyIsPresent ==
    \A i \in Resolutions :
      LET q == log[i].path
          d == DeclOf(q)
          c == Coerce(<<>>, d)
      IN (SetEmpty(PrimaryName(q)) \/ SetEmpty(FallbackName(q)))
         => /\ log[i].ok
            /\ log[i].value = <<>>
            /\ i < Len(log)
            /\ log[i + 1].op \in {"parseField", "Set"}
            /\ log[i + 1].path = q
            /\ log[i + 1].value = <<>>
            /\ (BuiltIn(d) /\ c.err = "") => cfg[q] = c.val
            /\ (BuiltIn(d) /\ c.err # "")
                 => /\ i + 1 = Len(log)
                    /\ CurrentError = FieldError(d.Name, d.TypeName, <<>>, c.err)

====
